---- MODULE Spec2Model ----
(***************************************************************************)
(* A model of altb's AltbService (src/altb/service.py): the persisted      *)
(* configuration document, the artifacts under the bin directory, the      *)
(* tracked files, and one action per service operation, each run the way   *)
(* src/altb/track.py runs it:                                              *)
(*     with AltbService(settings) as service: service.<operation>(...)     *)
(* so that an action is the lazy load of the configuration, the operation  *)
(* and the save done by __exit__.                                          *)
(***************************************************************************)
EXTENDS Integers, Sequences, FiniteSets, TLC

None == "None"

\* ---------------------------------------------------------------- inputs
Apps == {"A", "B"}
\* the applications the invocations of Spec are for
MainApps == {"A"}
\* the tag names, in the order of the keys of the tags mapping after a load:
\* yaml.safe_dump writes a mapping with its keys sorted
SortedTags == <<"a", "b">>
\* the tag given, or what str(uuid.uuid4())[:8] returned when none was given
AllTags == {SortedTags[i] : i \in DOMAIN SortedTags}
UserPaths == {"p1", "p2"}
Commands == {"echo hi"}
Descriptions == {None, "d1"}
WorkDirs == {"w1"}
\* the application names in the order yaml.safe_dump writes the binaries mapping
SortedApps == <<"A", "B">>
\* settings.config_resolved_path.parent
ConfigDirectory == "config_dir"

\* the stored commands of the configurations run is called on
RunCommands == Commands \cup {"sh -c 'exit 3'"}
\* the args given to run
ArgLists == {<<>>, <<"x y">>, <<"-v", "$HOME">>}
\* os.environ of the caller
Environs == {[HOME |-> "/root"], [HOME |-> "/root", X |-> "parent"]}
\* the env mappings of hand-written command tags, as their YAML flow text
TagEnvs == {"{X: tag, Y: tag}"}
\* the exit statuses of a child
ExitStatuses == {0, 3}
\* the working directory of the caller
CallerCwd == "cwd"

\* number of steps (service invocations and changes made outside the tool)
MaxOps == 3
\* number of run invocations
MaxRuns == 2
\* number of those steps that are changes made outside the tool
MaxOutside == 1

PACKAGE_NAME == "altb"

\* f'{app_name}_{tag}' under settings.versions_path / app_name
CopyPath(app_name, tag) == "versions/" \o app_name \o "/" \o app_name \o "_" \o tag

AllPaths == UserPaths \cup {CopyPath(a, t) : a \in Apps, t \in AllTags}

\* the two lines _select_tag writes for a command tag
ShimContent(app_name) ==
    "#!/bin/sh\n" \o PACKAGE_NAME \o " run " \o app_name \o " -- \"$@\"\n"

Mode755 == "0o755"
ModeUser == "0o600"
ModeEdited == "0o644"

\* ------------------------------------------------------------ file system
Missing == [exists |-> FALSE, content |-> "", mode |-> ""]
File(content, mode) == [exists |-> TRUE, content |-> content, mode |-> mode]

Absent == [type |-> "absent", target |-> None, content |-> "", mode |-> ""]
Symlink(p) == [type |-> "symlink", target |-> p, content |-> "", mode |-> ""]
Regular(content, mode) == [type |-> "file", target |-> None, content |-> content, mode |-> mode]

\* ------------------------------------------------------------------ model
EmptyMap == [k \in {} |-> None]

LinkTag(description, path, is_copy) ==
    [kind |-> "link", description |-> description,
     spec |-> [path |-> path, is_copy |-> is_copy]]

CommandTag(description, command, working_directory) ==
    [kind |-> "command", description |-> description,
     spec |-> [command |-> command, working_directory |-> working_directory, env |-> None]]

BinaryStruct(name) == [name |-> name, tags |-> EmptyMap, selected |-> None]

MapSet(m, k, v) == [x \in (DOMAIN m) \cup {k} |-> IF x = k THEN v ELSE m[x]]
MapDel(m, k) == [x \in (DOMAIN m) \ {k} |-> m[x]]

VARIABLES
    persisted,  \* the configuration file: absent, empty (truncated) or a document
    config,     \* the service's _config when the last invocation ended
    dst,        \* what is at <bin_dir>/<app>, per application name
    files,      \* the files at the tracked paths and in the versions directory
    dirs,       \* the directories that exist
    nout,       \* changes made outside the tool so far
    nops,       \* steps taken so far
    children,   \* the child processes run has spawned, in order
    observed,   \* the exit status the caller of the last run observed
    procs       \* the invocations in progress, where invocations overlap

vars == <<persisted, config, dst, files, dirs, nout, nops, children, observed, procs>>

\* ------------------------------------------------- save and load (yaml)
\* self._config.json(exclude_none=True): a field whose value is None is left out
Opt(key, value) == IF value = None THEN EmptyMap ELSE (key :> value)

DumpSpec(t) ==
    IF t.kind = "link"
    THEN [path |-> t.spec.path, is_copy |-> t.spec.is_copy]
    ELSE [command |-> t.spec.command]
         @@ Opt("working_directory", t.spec.working_directory)
         @@ Opt("env", t.spec.env)

\* a variant of the dump of a tag that leaves the description out
DumpTag_NoDescription(t) == [kind |-> t.kind, spec |-> DumpSpec(t)]

DumpTag(t) == [kind |-> t.kind, spec |-> DumpSpec(t)] @@ Opt("description", t.description)

DumpBinary(b) ==
    [name |-> b.name, tags |-> [t \in DOMAIN b.tags |-> DumpTag(b.tags[t])]]
    @@ Opt("selected", b.selected)

Dump(binaries) == [binaries |-> [a \in DOMAIN binaries |-> DumpBinary(binaries[a])]]

\* AppConfig(**content): a field the document leaves out takes its default
Field(d, key, default) == IF key \in DOMAIN d THEN d[key] ELSE default

LoadTag(d) ==
    IF d.kind = "link"
    THEN LinkTag(Field(d, "description", None), d.spec.path, Field(d.spec, "is_copy", FALSE))
    ELSE [kind |-> "command", description |-> Field(d, "description", None),
          spec |-> [command |-> d.spec.command,
                    working_directory |-> Field(d.spec, "working_directory", None),
                    env |-> Field(d.spec, "env", None)]]

LoadBinary(d) ==
    [name |-> d.name,
     tags |-> [t \in DOMAIN Field(d, "tags", EmptyMap) |-> LoadTag(d.tags[t])],
     selected |-> Field(d, "selected", None)]

Load(doc) ==
    [a \in DOMAIN Field(doc, "binaries", EmptyMap) |-> LoadBinary(doc.binaries[a])]

FileAbsent == [state |-> "absent", doc |-> EmptyMap]
FileEmpty == [state |-> "empty", doc |-> EmptyMap]
FileDoc(doc) == [state |-> "doc", doc |-> doc]

\* ---------------------------------------------------- the text of the file
\* yaml.safe_dump writes one line per key, the keys of a mapping sorted, the
\* keys of a nested mapping after the line of their parent.  A line is the
\* path of its key and the text after the colon: nothing for a mapping that
\* follows, "{}" for an empty mapping, the scalar otherwise.
Line(path, text) == [path |-> path, text |-> text]

RECURSIVE Concat(_)
Concat(seqs) == IF seqs = <<>> THEN <<>> ELSE Head(seqs) \o Concat(Tail(seqs))

OptLine(d, p, key) == IF key \in DOMAIN d THEN <<Line(p \o <<key>>, d[key])>> ELSE <<>>

EmitSpec(kind, d, p) ==
    IF kind = "link"
    THEN OptLine([is_copy |-> IF d.is_copy THEN "true" ELSE "false"], p, "is_copy")
         \o OptLine(d, p, "path")
    ELSE OptLine(d, p, "command") \o OptLine(d, p, "env")
         \o OptLine(d, p, "working_directory")

EmitTag(d, p) ==
    <<Line(p, "")>> \o OptLine(d, p, "description") \o OptLine(d, p, "kind")
    \o <<Line(p \o <<"spec">>, "")>> \o EmitSpec(d.kind, d.spec, p \o <<"spec">>)

\* a mapping: "{}" when it is empty, else its own line, then the lines of
\* its entries in the order of their keys
EmitTags(m, p) ==
    IF DOMAIN m = {} THEN <<Line(p, "{}")>>
    ELSE <<Line(p, "")>>
         \o Concat([i \in DOMAIN SortedTags |->
                        IF SortedTags[i] \in DOMAIN m
                        THEN EmitTag(m[SortedTags[i]], p \o <<SortedTags[i]>>) ELSE <<>>])

EmitBinary(d, p) ==
    <<Line(p, "")>> \o OptLine(d, p, "name") \o OptLine(d, p, "selected")
    \o EmitTags(d.tags, p \o <<"tags">>)

EmitBinaries(m, p) ==
    IF DOMAIN m = {} THEN <<Line(p, "{}")>>
    ELSE <<Line(p, "")>>
         \o Concat([i \in DOMAIN SortedApps |->
                        IF SortedApps[i] \in DOMAIN m
                        THEN EmitBinary(m[SortedApps[i]], p \o <<SortedApps[i]>>) ELSE <<>>])

\* the lines yaml.safe_dump writes for the document save dumps
Emit(doc) == EmitBinaries(doc.binaries, <<"binaries">>)

\* what yaml.safe_load makes of a key with nothing after it: null
NullNode == ("~" :> "~")
IsNull(d) == "~" \in DOMAIN d

Scalar(text) ==
    CASE text = "" -> NullNode
      [] text = "{}" -> EmptyMap
      [] text = "true" -> TRUE
      [] text = "false" -> FALSE
      [] OTHER -> text

IsUnder(path, p) == Len(path) > Len(p) /\ SubSeq(path, 1, Len(p)) = p

\* yaml.safe_load of the lines below the key at path p
RECURSIVE ParseAt(_, _)
ParseAt(lines, p) ==
    LET under == {i \in DOMAIN lines : IsUnder(lines[i].path, p)}
        keys == {lines[i].path[Len(p) + 1] : i \in under}
    IN  [k \in keys |->
            IF \E i \in under : IsUnder(lines[i].path, p \o <<k>>)
            THEN ParseAt(lines, p \o <<k>>)
            ELSE Scalar(lines[CHOOSE i \in under : lines[i].path = p \o <<k>>].text)]

\* the file holding these lines, as _load_config reads it
FileOfLines(lines) == IF lines = <<>> THEN FileEmpty ELSE FileDoc(ParseAt(lines, <<>>))

\* the file a save leaves when the process is killed after it wrote n lines
PartialFile(doc, n) == FileOfLines(SubSeq(Emit(doc), 1, n))

\* ----------------------------------------------- validation at load time
\* every model forbids extra fields (Config.extra = pydantic.Extra.forbid)
ValidSpec(kind, d) ==
    /\ ~IsNull(d)
    /\ IF kind = "link"
       THEN "path" \in DOMAIN d /\ DOMAIN d \subseteq {"path", "is_copy"}
       ELSE /\ "command" \in DOMAIN d
            /\ DOMAIN d \subseteq {"command", "working_directory", "env"}

\* a variant of the validation of a tag that ignores fields it does not know
ValidTag_IgnoreExtra(d) ==
    /\ ~IsNull(d)
    /\ "kind" \in DOMAIN d
    /\ d.kind \in {"link", "command"}
    /\ "spec" \in DOMAIN d
    /\ ValidSpec(d.kind, d.spec)

ValidTag(d) ==
    /\ ~IsNull(d)
    /\ DOMAIN d \subseteq {"kind", "description", "spec"}
    /\ "kind" \in DOMAIN d
    /\ d.kind \in {"link", "command"}
    /\ "spec" \in DOMAIN d
    /\ ValidSpec(d.kind, d.spec)

ValidBinary(d) ==
    /\ ~IsNull(d)
    /\ DOMAIN d \subseteq {"name", "tags", "selected"}
    /\ "name" \in DOMAIN d
    /\ "tags" \in DOMAIN d =>
            ~IsNull(d.tags) /\ \A t \in DOMAIN d.tags : ValidTag(d.tags[t])

\* AppConfig(**content) raises no pydantic.ValidationError
Valid(doc) ==
    /\ DOMAIN doc \subseteq {"binaries"}
    /\ "binaries" \in DOMAIN doc =>
            ~IsNull(doc.binaries) /\ \A a \in DOMAIN doc.binaries : ValidBinary(doc.binaries[a])

\* ------------------------------------------------------ the service state
\* The state an operation works on: the service's _config (loaded or not),
\* the configuration file, the file system, and the exception raised so far.
Ok(s) == s.err = "ok"
Raise(s, e) == [s EXCEPT !.err = e]

\* a variant of save that reads the file again and keeps the applications
\* and tags it finds there and does not hold itself
Save_KeepOthers(s) ==
    IF s.loaded /\ s.persisted.state = "doc" /\ Valid(s.persisted.doc)
    THEN LET disk == Load(s.persisted.doc)
             merged == [a \in DOMAIN disk \cup DOMAIN s.binaries |->
                          IF a \notin DOMAIN s.binaries THEN disk[a]
                          ELSE IF a \notin DOMAIN disk THEN s.binaries[a]
                          ELSE [s.binaries[a] EXCEPT !.tags = @ @@ disk[a].tags]]
         IN  [s EXCEPT !.persisted = FileDoc(Dump(merged))]
    ELSE IF s.loaded
         THEN [s EXCEPT !.persisted = FileDoc(Dump(s.binaries)),
                        !.dirs = @ \cup {ConfigDirectory}]
    ELSE [s EXCEPT !.persisted = FileEmpty, !.dirs = @ \cup {ConfigDirectory},
                   !.exit_err = "AttributeError"]

\* AltbService.save
Save(s) ==
    LET \* os.makedirs(directory, exist_ok=True) when the file does not exist
        d == IF s.persisted.state = "absent" THEN s.dirs \cup {ConfigDirectory} ELSE s.dirs
    IN  IF s.loaded
        THEN [s EXCEPT !.persisted = FileDoc(Dump(s.binaries)), !.dirs = d]
        ELSE \* open(mode='w') has truncated the file when self._config.json fails
             [s EXCEPT !.persisted = FileEmpty, !.dirs = d, !.exit_err = "AttributeError"]

\* a variant of config that does not save when the file does not exist
Config_NoBaseline(s) ==
    IF s.loaded THEN s
    ELSE IF s.persisted.state = "absent"
         THEN [s EXCEPT !.loaded = TRUE, !.binaries = EmptyMap]
    ELSE IF s.persisted.state = "empty"
         THEN Raise(s, "TypeError")
    ELSE IF ~Valid(s.persisted.doc)
         THEN Raise(s, "ValidationError")
    ELSE [s EXCEPT !.loaded = TRUE, !.binaries = Load(s.persisted.doc)]

\* AltbService.config / _load_config
Config(s) ==
    IF s.loaded THEN s
    ELSE IF s.persisted.state = "absent"
         THEN Save([s EXCEPT !.loaded = TRUE, !.binaries = EmptyMap])
    ELSE IF s.persisted.state = "empty"
         THEN Raise(s, "TypeError")   \* AppConfig(**None)
    ELSE IF ~Valid(s.persisted.doc)
         THEN Raise(s, "ValidationError")   \* raised again as a RichValueError
    ELSE [s EXCEPT !.loaded = TRUE, !.binaries = Load(s.persisted.doc)]

\* the entry of the first application, whatever application is asked for
DestinationFor_FirstApp(app) == SortedApps[1]

\* AltbService._get_destination_for
DestinationFor(app) == app.name

\* pathlib.Path.exists follows a symbolic link
EntryExists(s, d) ==
    \/ d.type = "file"
    \/ d.type = "symlink" /\ s.files[d.target].exists

\* a variant of _assert_selected_owned_reference that accepts any symlink at
\* the destination, without comparing readlink() with spec.path
AssertSelectedOwnedReference_NoCompare(s, a) ==
    LET app == s.binaries[a]
        d == s.dst[DestinationFor(app)]
    IN  IF app.selected = None THEN "ok"
        ELSE IF app.selected \notin DOMAIN app.tags THEN "KeyError"
        ELSE IF app.tags[app.selected].kind = "link"
             THEN IF d.type = "symlink" THEN "ok" ELSE "not_symlink"
             ELSE "ok"

\* a variant of the check that passes when nothing is at the destination
AssertSelectedOwnedReference_MissingPasses(s, a) ==
    LET app == s.binaries[a]
        d == s.dst[DestinationFor(app)]
    IN  IF app.selected = None THEN "ok"
        ELSE IF app.selected \notin DOMAIN app.tags THEN "KeyError"
        ELSE IF app.tags[app.selected].kind = "link"
             THEN IF d.type = "symlink"
                  THEN IF app.tags[app.selected].spec.path # d.target
                       THEN "drift" ELSE "ok"
                  ELSE IF d.type = "absent" THEN "ok"
                  ELSE "not_symlink"
             ELSE "ok"

\* AltbService._assert_selected_owned_reference: "ok" or the error raised
AssertSelectedOwnedReference(s, a) ==
    LET app == s.binaries[a]
        d == s.dst[DestinationFor(app)]
    IN  IF app.selected = None THEN "ok"
        ELSE IF app.selected \notin DOMAIN app.tags THEN "KeyError"
        ELSE IF app.tags[app.selected].kind = "link"
             THEN IF d.type = "symlink"
                  THEN IF app.tags[app.selected].spec.path # d.target
                       THEN "drift" ELSE "ok"
                  ELSE "not_symlink"
             ELSE "ok"

\* AltbService._unselect_current_tag
UnselectCurrentTag(s, a) ==
    LET chk == AssertSelectedOwnedReference(s, a)
        dest == DestinationFor(s.binaries[a])
    IN  IF chk # "ok" THEN Raise(s, chk)
        ELSE [s EXCEPT !.dst[dest] = IF EntryExists(s, @) THEN Absent ELSE @,
                       !.binaries[a].selected = None]

\* AltbService._select_tag
SelectTag(s, a, tag) ==
    LET app == s.binaries[a]
        dest == DestinationFor(app)
        d == s.dst[dest]
        t == app.tags[tag]
        shim == File(ShimContent(app.name), Mode755)
    IN  IF t.kind = "link"
        THEN IF d.type # "absent"
             THEN Raise(s, "FileExistsError")   \* destination.symlink_to(source)
             ELSE [s EXCEPT !.dst[dest] = Symlink(t.spec.path),
                            !.binaries[a].selected = tag]
        ELSE IF d.type = "symlink"
             THEN \* open(destination, 'w') and os.chmod follow the link
                  [s EXCEPT !.files[d.target] = shim,
                            !.binaries[a].selected = tag]
             ELSE [s EXCEPT !.dst[dest] = Regular(ShimContent(app.name), Mode755),
                            !.binaries[a].selected = tag]


\* a variant of select that unselects the current tag before it looks the
\* given tag up
Select_UnselectFirst(s0, a, tag, force) ==
    LET s == Config(s0)
    IN  IF ~Ok(s) THEN s
        ELSE IF a \notin DOMAIN s.binaries THEN Raise(s, "app_not_tracked")
        ELSE LET s1 == IF ~force /\ s.binaries[a].selected # None
                       THEN UnselectCurrentTag(s, a) ELSE s
             IN  IF ~Ok(s1) THEN s1
                 ELSE IF tag # None /\ tag \notin DOMAIN s1.binaries[a].tags
                      THEN Raise(s1, "tag_not_found")
                 ELSE IF tag # None THEN SelectTag(s1, a, tag) ELSE s1

\* AltbService.select
Select(s0, a, tag, force) ==
    LET s == Config(s0)
    IN  IF ~Ok(s) THEN s
        ELSE IF a \notin DOMAIN s.binaries THEN Raise(s, "app_not_tracked")
        ELSE IF tag # None /\ tag \notin DOMAIN s.binaries[a].tags
             THEN Raise(s, "tag_not_found")
        ELSE LET s1 == IF ~force /\ s.binaries[a].selected # None
                       THEN UnselectCurrentTag(s, a) ELSE s
             IN  IF ~Ok(s1) THEN s1
                 ELSE IF tag # None THEN SelectTag(s1, a, tag) ELSE s1

\* a variant of remove that selects new_selected whichever tag is removed
Remove_AlwaysSelect(s0, a, tag, new_selected) ==
    LET s == Config(s0)
    IN  IF ~Ok(s) THEN s
        ELSE IF a \notin DOMAIN s.binaries THEN Raise(s, "app_not_tracked")
        ELSE IF tag \notin DOMAIN s.binaries[a].tags THEN Raise(s, "tag_not_found")
        ELSE LET s1 == Select(s, a, new_selected, FALSE)
             IN  IF ~Ok(s1) THEN s1
                 ELSE [s1 EXCEPT !.binaries[a].tags = MapDel(@, tag)]

\* AltbService.remove
Remove(s0, a, tag, new_selected) ==
    LET s == Config(s0)
    IN  IF ~Ok(s) THEN s
        ELSE IF a \notin DOMAIN s.binaries THEN Raise(s, "app_not_tracked")
        ELSE IF tag \notin DOMAIN s.binaries[a].tags THEN Raise(s, "tag_not_found")
        ELSE LET s1 == IF s.binaries[a].selected = tag
                       THEN Select(s, a, new_selected, FALSE) ELSE s
             IN  IF ~Ok(s1) THEN s1
                 ELSE [s1 EXCEPT !.binaries[a].tags = MapDel(@, tag)]

\* the link tags of the application whose spec.path is app_path
TagsAtPath(s, a, app_path) ==
    {t \in DOMAIN s.binaries[a].tags :
        /\ s.binaries[a].tags[t].kind = "link"
        /\ s.binaries[a].tags[t].spec.path = app_path}

\* the loop of _dedup_paths with force, over the tags found at the path, in
\* the order of the mapping
RECURSIVE RemoveEach(_, _, _, _)
RemoveEach(s, a, found, i) ==
    IF i > Len(SortedTags) \/ ~Ok(s) THEN s
    ELSE RemoveEach(IF SortedTags[i] \in found THEN Remove(s, a, SortedTags[i], None) ELSE s,
                    a, found, i + 1)

\* a variant of _dedup_paths that removes the tags found at the path whether
\* or not force is given
DedupPaths_NoRaise(s, a, app_path, force) ==
    LET found == TagsAtPath(s, a, app_path)
    IN  IF found = {} THEN s
        ELSE RemoveEach(s, a, found, 1)

\* AltbService._dedup_paths
DedupPaths(s, a, app_path, force) ==
    LET found == TagsAtPath(s, a, app_path)
    IN  IF found = {} THEN s
        ELSE IF ~force THEN Raise(s, "already_tracked")
        ELSE RemoveEach(s, a, found, 1)

\* a variant of the copy that creates the destination without the content of
\* the source
CopyFile_NoContent(s, original_app_path, app_path) ==
    [s EXCEPT !.files[app_path] = File("", Mode755)]

\* shutil.copy(original_app_path, app_path); os.chmod(app_path, 0o755)
CopyFile(s, original_app_path, app_path) ==
    [s EXCEPT !.files[app_path] = File(s.files[original_app_path].content, Mode755)]

\* AltbService.track_path, from "if should_copy" on
TrackPathFrom(s, a, original_app_path, tag, description, should_copy, force) ==
    LET app_path == IF should_copy THEN CopyPath(a, tag) ELSE original_app_path
    IN  IF should_copy /\ s.files[app_path].exists /\ ~force
        THEN Raise(s, "copy_exists")
        ELSE LET s1 == IF should_copy THEN CopyFile(s, original_app_path, app_path) ELSE s
                 s2 == DedupPaths(s1, a, app_path, force)
             IN  IF ~Ok(s2) THEN s2
                 ELSE Select([s2 EXCEPT !.binaries[a].tags =
                                  MapSet(@, tag, LinkTag(description, app_path, should_copy))],
                             a, tag, force)

\* AltbService.track_path (tag is the tag given, or the uuid drawn for it)
TrackPath(s0, a, app_path, tag, description, should_copy, force) ==
    IF ~s0.files[app_path].exists THEN Raise(s0, "path_missing")
    ELSE LET s == Config(s0)
         IN  IF ~Ok(s) THEN s
             ELSE LET s1 == IF a \notin DOMAIN s.binaries
                            THEN [s EXCEPT !.binaries = MapSet(@, a, BinaryStruct(a))]
                            ELSE s
                      app == s1.binaries[a]
                      \* make sure we don't override selected tag if there's a drift
                      s2 == IF ~force /\ tag \in DOMAIN app.tags /\ app.selected # None
                            THEN UnselectCurrentTag(s1, a) ELSE s1
                 IN  IF ~Ok(s2) THEN s2
                     ELSE TrackPathFrom(s2, a, app_path, tag, description, should_copy, force)

\* AltbService.track_command
TrackCommand(s0, a, command, tag, description, working_directory) ==
    IF working_directory # None /\ working_directory \notin s0.dirs
    THEN Raise(s0, "path_missing")
    ELSE LET s == Config(s0)
         IN  IF ~Ok(s) THEN s
             ELSE LET s1 == IF a \notin DOMAIN s.binaries
                            THEN [s EXCEPT !.binaries = MapSet(@, a, BinaryStruct(a))]
                            ELSE s
                  IN  Select([s1 EXCEPT !.binaries[a].tags =
                                  MapSet(@, tag, CommandTag(description, command, working_directory))],
                             a, tag, FALSE)

\* AltbService.rename_tag
RenameTag(s0, a, tag, new_tag) ==
    LET s == Config(s0)
    IN  IF ~Ok(s) THEN s
        ELSE IF a \notin DOMAIN s.binaries THEN Raise(s, "app_not_tracked")
        ELSE IF tag \notin DOMAIN s.binaries[a].tags THEN Raise(s, "tag_not_found")
        ELSE Remove([s EXCEPT !.binaries[a].tags = MapSet(@, new_tag, s.binaries[a].tags[tag])],
                    a, tag, new_tag)

\* AltbService.describe_tag
DescribeTag(s0, a, tag, description) ==
    LET s == Config(s0)
    IN  IF ~Ok(s) THEN s
        ELSE IF a \notin DOMAIN s.binaries THEN Raise(s, "app_not_tracked")
        ELSE IF tag \notin DOMAIN s.binaries[a].tags THEN Raise(s, "tag_not_found")
        ELSE [s EXCEPT !.binaries[a].tags[tag].description = description]

\* ------------------------------------------------------------------- run
\* shlex.split of the stored command
ShlexSplit(command) ==
    CASE command = "echo hi" -> <<"echo", "hi">>
      [] command = "sh -c 'exit 3'" -> <<"sh", "-c", "exit 3">>

\* the items of a tag's env mapping
EnvItems(env) ==
    CASE env = "{X: tag, Y: tag}" -> [X |-> "tag", Y |-> "tag"]

\* a variant of the overlay in which the caller's value wins on a collision
ProcessEnv_ParentWins(environ, env) ==
    IF env = None THEN environ
    ELSE [k \in (DOMAIN environ) \cup (DOMAIN EnvItems(env)) |->
            IF k \in DOMAIN environ THEN environ[k] ELSE EnvItems(env)[k]]

\* process_env = {**os.environ}, then process_env[key] = value for the tag's
\* items, when the tag has an env
ProcessEnv(environ, env) ==
    IF env = None THEN environ
    ELSE [k \in (DOMAIN environ) \cup (DOMAIN EnvItems(env)) |->
            IF k \in DOMAIN EnvItems(env) THEN EnvItems(env)[k] ELSE environ[k]]

\* subprocess.call(full_command, cwd=working_directory, env=process_env): the
\* child, which starts in the caller's directory when cwd is None, and the
\* status it ends with
Call(full_command, working_directory, process_env, status) ==
    [argv |-> full_command,
     cwd |-> IF working_directory = None THEN CallerCwd ELSE working_directory,
     env |-> process_env,
     status |-> status]

\* the outcome of run: the service state, the children spawned and the value
\* run returns
NoSpawn(s) == [s |-> s, spawned |-> <<>>, returned |-> None]

\* a variant of run that does not look whether the working directory exists
Run_NoDirCheck(s0, a, args, environ, status) ==
    LET s == Config(s0)
    IN  IF ~Ok(s) THEN NoSpawn(s)
        ELSE IF a \notin DOMAIN s.binaries THEN NoSpawn(Raise(s, "app_not_tracked"))
        ELSE IF s.binaries[a].selected = None THEN NoSpawn(Raise(s, "no_selected_tag"))
        ELSE IF s.binaries[a].selected \notin DOMAIN s.binaries[a].tags
             THEN NoSpawn(Raise(s, "KeyError"))
        ELSE LET tag_struct == s.binaries[a].tags[s.binaries[a].selected]
             IN  IF tag_struct.kind # "command" THEN NoSpawn(Raise(s, "not_runnable"))
                 ELSE [s |-> s,
                       spawned |-> <<Call(ShlexSplit(tag_struct.spec.command) \o args,
                                          tag_struct.spec.working_directory,
                                          ProcessEnv(environ, tag_struct.spec.env),
                                          status)>>,
                       returned |-> None]

\* AltbService.run; status is the exit status of the child, if one is spawned
Run(s0, a, args, environ, status) ==
    LET s == Config(s0)
    IN  IF ~Ok(s) THEN NoSpawn(s)
        ELSE IF a \notin DOMAIN s.binaries THEN NoSpawn(Raise(s, "app_not_tracked"))
        ELSE IF s.binaries[a].selected = None THEN NoSpawn(Raise(s, "no_selected_tag"))
        ELSE IF s.binaries[a].selected \notin DOMAIN s.binaries[a].tags
             THEN NoSpawn(Raise(s, "KeyError"))
        ELSE LET tag_struct == s.binaries[a].tags[s.binaries[a].selected]
             IN  IF tag_struct.kind # "command" THEN NoSpawn(Raise(s, "not_runnable"))
                 ELSE IF /\ tag_struct.spec.working_directory # None
                         /\ tag_struct.spec.working_directory \notin s.dirs
                      THEN NoSpawn(Raise(s, "path_missing"))
                 ELSE [s |-> s,
                       spawned |-> <<Call(ShlexSplit(tag_struct.spec.command) \o args,
                                          tag_struct.spec.working_directory,
                                          ProcessEnv(environ, tag_struct.spec.env),
                                          status)>>,
                       \* the value of subprocess.call is dropped
                       returned |-> None]

\* the exit status of the command line: 1 when the call raised, else 0,
\* whatever run returned
ExitCode(r) == IF r.s.err # "ok" THEN 1 ELSE 0

\* ------------------------------------------------------- one invocation
\* AltbService.__init__ / __enter__: a new service, nothing loaded
Enter ==
    [loaded |-> FALSE, binaries |-> EmptyMap, persisted |-> persisted,
     dst |-> dst, files |-> files, dirs |-> dirs, err |-> "ok", exit_err |-> "ok"]

\* AltbService.__exit__: save, whatever the operation raised
Exit(s) == Save(s)

\* the state the invocation leaves
Leaves(s) ==
    /\ nops < MaxOps
    /\ nops' = nops + 1
    /\ persisted' = s.persisted
    /\ config' = [loaded |-> s.loaded, binaries |-> s.binaries]
    /\ dst' = s.dst
    /\ files' = s.files
    /\ dirs' = s.dirs
    /\ UNCHANGED <<nout, children, observed, procs>>

\* ---------------------------------------------------------------- actions
Init ==
    /\ persisted = FileAbsent
    /\ config = [loaded |-> FALSE, binaries |-> EmptyMap]
    /\ dst = [a \in Apps |-> Absent]
    /\ files = [p \in AllPaths |->
                  IF p \in UserPaths THEN File("data of " \o p, ModeUser) ELSE Missing]
    /\ dirs = WorkDirs
    /\ nout = 0
    /\ nops = 0
    /\ children = <<>>
    /\ observed = 0
    /\ procs = EmptyMap

\* altb track path <app>[@<tag>] <path> [-d description] [--copy] [--force]
DoTrackPath(apps) ==
    \E a \in apps, app_path \in UserPaths, tag \in AllTags, description \in Descriptions,
       should_copy \in BOOLEAN, force \in BOOLEAN :
        Leaves(Exit(TrackPath(Enter, a, app_path, tag, description, should_copy, force)))

\* altb track command <app>[@<tag>] <command> [-d description] [-w directory]
DoTrackCommand(apps) ==
    \E a \in apps, command \in Commands, tag \in AllTags, description \in Descriptions,
       working_directory \in WorkDirs \cup {None} :
        Leaves(Exit(TrackCommand(Enter, a, command, tag, description, working_directory)))

DoSelect(apps) ==
    \E a \in apps, tag \in AllTags \cup {None}, force \in BOOLEAN :
        Leaves(Exit(Select(Enter, a, tag, force)))

DoRenameTag(apps) ==
    \E a \in apps, tag \in AllTags, new_tag \in AllTags :
        Leaves(Exit(RenameTag(Enter, a, tag, new_tag)))

DoDescribeTag(apps) ==
    \E a \in apps, tag \in AllTags, description \in Descriptions :
        Leaves(Exit(DescribeTag(Enter, a, tag, description)))

DoRemove(apps) ==
    \E a \in apps, tag \in AllTags, new_selected \in AllTags \cup {None} :
        Leaves(Exit(Remove(Enter, a, tag, new_selected)))

\* A change made outside the tool leaves the configuration alone.
Outside ==
    /\ nops < MaxOps
    /\ nout < MaxOutside
    /\ nops' = nops + 1
    /\ nout' = nout + 1
    /\ UNCHANGED <<persisted, config, children, observed, procs>>

\* the user points <bin_dir>/<app> at a path (ln -sf): a file of theirs, or a
\* path under the versions directory, where there may be no file (a dangling
\* link)
ExtSymlink(apps) ==
    \E a \in apps : \E p \in UserPaths \cup {CopyPath(a, SortedTags[1])} :
        /\ dst[a] # Symlink(p)
        /\ dst' = [dst EXCEPT ![a] = Symlink(p)]
        /\ UNCHANGED <<files, dirs>>
        /\ Outside

\* the user puts a file of their own at <bin_dir>/<app>
ExtWriteFile(apps) ==
    \E a \in apps :
        /\ dst[a] # Regular("user edit", ModeEdited)
        /\ dst' = [dst EXCEPT ![a] = Regular("user edit", ModeEdited)]
        /\ UNCHANGED <<files, dirs>>
        /\ Outside

\* the user deletes <bin_dir>/<app>
ExtUnlink(apps) ==
    \E a \in apps :
        /\ dst[a].type # "absent"
        /\ dst' = [dst EXCEPT ![a] = Absent]
        /\ UNCHANGED <<files, dirs>>
        /\ Outside

\* the user deletes a tracked file
ExtDeleteFile ==
    \E p \in AllPaths :
        /\ files[p].exists
        /\ files' = [files EXCEPT ![p] = Missing]
        /\ UNCHANGED <<dst, dirs>>
        /\ Outside

\* the user removes a working directory
ExtRemoveDir ==
    \E w \in WorkDirs :
        /\ w \in dirs
        /\ dirs' = dirs \ {w}
        /\ UNCHANGED <<dst, files>>
        /\ Outside

\* altb run <app> [args...]
DoRun(apps) ==
    \E a \in apps, args \in ArgLists, environ \in Environs, status \in ExitStatuses :
        LET r == Run(Enter, a, args, environ, status)
            s == Exit(r.s)
        IN  /\ nops < MaxRuns
            /\ nops' = nops + 1
            /\ persisted' = s.persisted
            /\ config' = [loaded |-> s.loaded, binaries |-> s.binaries]
            /\ dst' = s.dst
            /\ files' = s.files
            /\ dirs' = s.dirs
            /\ children' = children \o r.spawned
            /\ observed' = ExitCode(r)
            /\ UNCHANGED <<nout, procs>>

Next ==
    \/ DoTrackPath(MainApps)
    \/ DoTrackCommand(MainApps)
    \/ DoSelect(MainApps)
    \/ DoRenameTag(MainApps)
    \/ DoDescribeTag(MainApps)
    \/ DoRemove(MainApps)
    \/ ExtSymlink(MainApps)
    \/ ExtWriteFile(MainApps)
    \/ ExtUnlink(MainApps)
    \/ ExtDeleteFile
    \/ ExtRemoveDir

Spec == Init /\ [][Next]_vars

\* ------------------------------------------------------------ vocabulary
\* the configuration the service holds, and the next invocation loads
Bin == config.binaries

HasSelected(a) ==
    /\ a \in DOMAIN Bin
    /\ Bin[a].selected # None
    /\ Bin[a].selected \in DOMAIN Bin[a].tags

SelectedTag(a) == Bin[a].tags[Bin[a].selected]

SelectedLink(a) == HasSelected(a) /\ SelectedTag(a).kind = "link"

\* what <bin_dir>/<app> is meant to be while tag t of binary b is selected
ArtifactFor(b, t) ==
    IF b.tags[t].kind = "link"
    THEN Symlink(b.tags[t].spec.path)
    ELSE Regular(ShimContent(b.name), Mode755)

\* the configuration after a call: untouched when the call never loaded it
After(r) == IF r.loaded THEN r.binaries ELSE Bin

TagsOrNone(a) == (DOMAIN Bin[a].tags) \cup {None}

\* the outcomes of every call of the operations that take no force, or take
\* force = FALSE, for application a
NonForcedCalls(a) ==
    {Select(Enter, a, t, FALSE) : t \in AllTags \cup {None}}
    \cup {Remove(Enter, a, t, n) : t \in AllTags, n \in AllTags \cup {None}}
    \cup {RenameTag(Enter, a, t, n) : t \in AllTags, n \in AllTags}
    \cup {TrackPath(Enter, a, p, t, d, c, FALSE) :
            p \in UserPaths, t \in AllTags, d \in Descriptions, c \in BOOLEAN}
    \cup {TrackCommand(Enter, a, c, t, d, w) :
            c \in Commands, t \in AllTags, d \in Descriptions, w \in WorkDirs \cup {None}}

\* the outcomes of every call for application a
AllCalls(a) ==
    NonForcedCalls(a)
    \cup {Select(Enter, a, t, TRUE) : t \in AllTags \cup {None}}
    \cup {TrackPath(Enter, a, p, t, d, c, TRUE) :
            p \in UserPaths, t \in AllTags, d \in Descriptions, c \in BOOLEAN}
    \cup {DescribeTag(Enter, a, t, d) : t \in AllTags, d \in Descriptions}

\* ------------------------------------------------- run, on configurations
\* the command tags a configuration file can hold: env is set by editing the
\* file
RunCommandTags ==
    {[CommandTag(None, c, w) EXCEPT !.spec.env = e] :
        c \in RunCommands, w \in WorkDirs \cup {None}, e \in TagEnvs \cup {None}}

RunTagMaps ==
    {("a" :> ct) : ct \in RunCommandTags}
    \cup {("a" :> ct) @@ ("b" :> LinkTag(None, "p1", FALSE)) : ct \in RunCommandTags}

RunBinaries ==
    {EmptyMap}
    \cup UNION {{("A" :> [name |-> "A", tags |-> tg, selected |-> sel]) :
                    sel \in AllTags \cup {None}} : tg \in RunTagMaps}

RunInit ==
    \E b \in RunBinaries, ds \in SUBSET WorkDirs :
        /\ persisted = FileDoc(Dump(b))
        /\ config = [loaded |-> TRUE, binaries |-> b]
        /\ dst = [a \in Apps |->
                    IF a \in DOMAIN b /\ b[a].selected \in DOMAIN b[a].tags
                    THEN ArtifactFor(b[a], b[a].selected) ELSE Absent]
        /\ files = [p \in AllPaths |->
                      IF p \in UserPaths THEN File("data of " \o p, ModeUser) ELSE Missing]
        /\ dirs = ds \cup {ConfigDirectory}
        /\ nout = 0
        /\ nops = 0
        /\ children = <<>>
        /\ observed = 0
        /\ procs = EmptyMap

RunNext == DoRun(MainApps)

RunSpec == RunInit /\ [][RunNext]_vars

\* --------------------------------------------------------- model sanity
\* the service holds a configuration exactly when the file holds a document,
\* and then the file is the dump of that configuration and loads back to it
FileMatchesConfig ==
    /\ config.loaded <=> persisted.state = "doc"
    /\ config.loaded => persisted = FileDoc(Dump(Bin)) /\ Load(persisted.doc) = Bin
    /\ ~config.loaded => Bin = EmptyMap

\* ----------------------------------------------------------------- claims

\* C1: with nothing changed outside the tool, after any sequence of calls the
\* artifact of every tracked application is the one its selected tag asks
\* for: nothing when selected is None, a symlink to spec.path for a link tag,
\* the shim file for a command tag.
C1_ArtifactMatchesSelected ==
    nout = 0 =>
        \A a \in DOMAIN Bin :
            /\ Bin[a].selected = None => dst[Bin[a].name].type = "absent"
            /\ HasSelected(a) => dst[Bin[a].name] = ArtifactFor(Bin[a], Bin[a].selected)

\* C2: after any sequence of calls every BinaryStruct has selected == None or
\* selected a key of its tags.
C2_SelectedIsATag ==
    \A a \in DOMAIN Bin : Bin[a].selected = None \/ Bin[a].selected \in DOMAIN Bin[a].tags

\* the selected tag of a is a link tag and the symlink at the destination has
\* been pointed at another path
Repointed(a) ==
    /\ SelectedLink(a)
    /\ dst[Bin[a].name].type = "symlink"
    /\ dst[Bin[a].name].target # SelectedTag(a).spec.path

Refused(r, a, e) ==
    /\ r.err = e
    /\ After(r)[a].selected = Bin[a].selected
    /\ r.dst[Bin[a].name] = dst[Bin[a].name]

\* C3, as stated: while the selected tag is a link tag whose symlink has been
\* re-pointed, every non-forced select(app, t), for any t and for None, and
\* every remove of the selected tag fails with the drift error and leaves
\* selected and the artifact as they were.
C3_Original ==
    \A a \in Apps :
        Repointed(a) =>
            /\ \A t \in AllTags \cup {None} :
                    Refused(Select(Enter, a, t, FALSE), a, "drift")
            /\ \A n \in AllTags \cup {None} :
                    Refused(Remove(Enter, a, Bin[a].selected, n), a, "drift")

\* the error a refused call raises: select looks the tag up before it checks
\* the artifact
RefusalFor(a, t) == IF t \in TagsOrNone(a) THEN "drift" ELSE "tag_not_found"

\* C3, amended: in that situation every non-forced select(app, t) and every
\* remove(app, selected, n) fails and leaves selected and the artifact as they
\* were; the error is the drift error when t (or n) is None or a tag of the
\* application, and the tag-not-found error when it is not a tag of it.
C3_DriftBlocksSelectAndRemove ==
    \A a \in Apps :
        Repointed(a) =>
            /\ \A t \in AllTags \cup {None} :
                    Refused(Select(Enter, a, t, FALSE), a, RefusalFor(a, t))
            /\ \A n \in AllTags \cup {None} :
                    Refused(Remove(Enter, a, Bin[a].selected, n), a, RefusalFor(a, n))

\* C3, its case: an application with two tags whose symlink was re-pointed; the
\* select of its other tag, the select of None and the remove of the selected
\* tag are refused with the drift error
C3_Witness ==
    \E a \in Apps :
        /\ Repointed(a)
        /\ \E t \in DOMAIN Bin[a].tags :
              /\ t # Bin[a].selected
              /\ Select(Enter, a, t, FALSE).err = "drift"
              /\ Remove(Enter, a, Bin[a].selected, t).err = "drift"
        /\ Select(Enter, a, None, FALSE).err = "drift"
        /\ Remove(Enter, a, Bin[a].selected, None).err = "drift"

\* C4: while the selected tag is a link tag and the destination is not a
\* symlink to its spec.path, no non-forced operation deletes or overwrites
\* what is at the destination.
C4_NonForcedKeepsDriftedArtifact ==
    \A a \in Apps :
        (SelectedLink(a) /\ dst[Bin[a].name] # Symlink(SelectedTag(a).spec.path)) =>
            \A r \in NonForcedCalls(a) : r.dst[Bin[a].name] = dst[Bin[a].name]

\* C5: select(app, tag, force=True) on an application that has a selected tag
\* succeeds, replaces the artifact by the one for tag and ends with
\* selected == tag.
C5_ForcedSelectReplaces ==
    \A a \in Apps :
        HasSelected(a) =>
            \A t \in DOMAIN Bin[a].tags :
                LET r == Select(Enter, a, t, TRUE)
                IN  /\ r.err = "ok"
                    /\ r.binaries[a].selected = t
                    /\ r.dst[Bin[a].name] = ArtifactFor(Bin[a], t)

\* C6: a successful select(app, None, force) ends unselected, for every value
\* of force: selected is None and nothing is at the destination.
C6_SelectNoneUnselects ==
    \A a \in DOMAIN Bin : \A force \in BOOLEAN :
        LET r == Select(Enter, a, None, force)
        IN  r.err = "ok" =>
                /\ r.binaries[a].selected = None
                /\ r.dst[Bin[a].name].type = "absent"

\* C7: when the operation run inside the service context raises, the
\* configuration file holds no mutation made in memory before the failure.
C7_FailureIsNotSaved ==
    \A a \in Apps : \A r \in AllCalls(a) :
        (r.err # "ok" /\ persisted.state = "doc" /\ Exit(r).persisted.state = "doc")
            => Exit(r).persisted = persisted

\* the state a successful track call must leave
Tracked(r, a, tag, value, artifact) ==
    /\ a \in DOMAIN r.binaries
    /\ tag \in DOMAIN r.binaries[a].tags
    /\ r.binaries[a].tags[tag] = value
    /\ r.binaries[a].selected = tag
    /\ r.dst[r.binaries[a].name] = artifact

\* C8: every successful track_path and track_command ends with the tag in the
\* application's tags with the kind, spec and description given, selected ==
\* tag, and the artifact materialized for it (symlink to the tracked path, or
\* the shim).
C8_TrackEndsSelected ==
    \A a \in Apps, t \in AllTags, d \in Descriptions :
        /\ \A p \in UserPaths, c \in BOOLEAN, force \in BOOLEAN :
            LET r == TrackPath(Enter, a, p, t, d, c, force)
                target == IF c THEN CopyPath(a, t) ELSE p
            IN  r.err = "ok" => Tracked(r, a, t, LinkTag(d, target, c), Symlink(target))
        /\ \A c \in Commands, w \in WorkDirs \cup {None} :
            LET r == TrackCommand(Enter, a, c, t, d, w)
            IN  r.err = "ok" =>
                    Tracked(r, a, t, CommandTag(d, c, w), Regular(ShimContent(a), Mode755))

\* the path a track_path call tracks
Target(a, p, t, c) == IF c THEN CopyPath(a, t) ELSE p

AlreadyTracked(a, target) ==
    /\ a \in DOMAIN Bin
    /\ TagsAtPath([binaries |-> Bin], a, target) # {}

\* C9, as stated: track_path without force for a path that a link tag of the
\* application already has fails with the already-tracked error, and no new
\* tag is inserted.
C9_Original ==
    \A a \in Apps, p \in UserPaths, t \in AllTags, d \in Descriptions, c \in BOOLEAN :
        AlreadyTracked(a, Target(a, p, t, c)) =>
            LET r == TrackPath(Enter, a, p, t, d, c, FALSE)
            IN  /\ r.err = "already_tracked"
                /\ After(r)[a].tags = Bin[a].tags

\* the checks track_path makes before the deduplication all pass: the source
\* exists, the selected artifact passes the drift check when the tag name is
\* taken and something is selected, and the copy destination is free
ReachesDedup(a, p, t, c) ==
    /\ files[p].exists
    /\ (t \in DOMAIN Bin[a].tags /\ Bin[a].selected # None)
           => AssertSelectedOwnedReference(Config(Enter), a) = "ok"
    /\ c => ~files[CopyPath(a, t)].exists

\* C9, amended: such a call always fails and inserts no tag; the error is the
\* already-tracked error whenever the earlier checks of track_path pass.
C9_DedupRefuses ==
    \A a \in Apps, p \in UserPaths, t \in AllTags, d \in Descriptions, c \in BOOLEAN :
        AlreadyTracked(a, Target(a, p, t, c)) =>
            LET r == TrackPath(Enter, a, p, t, d, c, FALSE)
            IN  /\ r.err # "ok"
                /\ After(r)[a].tags = Bin[a].tags
                /\ ReachesDedup(a, p, t, c) => r.err = "already_tracked"

\* C9, its case: a path tracked under one tag is tracked again under another
\* and refused
C9_Witness ==
    \E a \in Apps, p \in UserPaths, t \in AllTags :
        /\ AlreadyTracked(a, p)
        /\ t \notin DOMAIN Bin[a].tags
        /\ ReachesDedup(a, p, t, FALSE)
        /\ TrackPath(Enter, a, p, t, None, FALSE, FALSE).err = "already_tracked"

\* C10: track_path with force=True for a path already tracked under tag X
\* succeeds: X is removed, the new tag inserted, selected == the new tag and
\* the artifact a symlink to the path, whichever tag was selected.
C10_ForcedTrackReplaces ==
    \A a \in Apps, p \in UserPaths, t \in AllTags, d \in Descriptions, c \in BOOLEAN :
        AlreadyTracked(a, Target(a, p, t, c)) =>
            LET r == TrackPath(Enter, a, p, t, d, c, TRUE)
                target == Target(a, p, t, c)
            IN  /\ r.err = "ok"
                /\ TagsAtPath(r, a, target) = {t}
                /\ Tracked(r, a, t, LinkTag(d, target, c), Symlink(target))

\* C11: track_path with should_copy (source present) fails with the copy
\* 'already exists' error exactly when the copy destination exists and force
\* is false; with force=True an existing copy is overwritten with the source
\* and the call succeeds with selected == tag.
C11_CopyRefusedIffExistsUnlessForced ==
    \A a \in Apps, p \in UserPaths, t \in AllTags, d \in Descriptions, force \in BOOLEAN :
        files[p].exists =>
            LET r == TrackPath(Enter, a, p, t, d, TRUE, force)
                copy == CopyPath(a, t)
            IN  /\ r.err = "copy_exists" <=> (files[copy].exists /\ ~force)
                /\ (force /\ files[copy].exists) =>
                      /\ r.err = "ok"
                      /\ r.files[copy] = File(files[p].content, Mode755)
                      /\ r.binaries[a].selected = t

\* the state track_path must leave for tag t of a: the new link tag stored
\* under t, selected == t and the destination a symlink to the target
Retracked(r, a, p, t, d, c) ==
    /\ r.err = "ok"
    /\ Tracked(r, a, t, LinkTag(d, Target(a, p, t, c), c), Symlink(Target(a, p, t, c)))

\* C12: track_path without force under a tag name the application already has,
\* with the source present, the target path tracked by no other tag, the copy
\* destination absent and the selected artifact passing the drift check,
\* succeeds: the entry under the name is the new link tag, selected == tag and
\* the destination is a symlink to the new target.
C12_RetrackSameTagSucceeds ==
    \A a \in DOMAIN Bin, p \in UserPaths, t \in AllTags, d \in Descriptions, c \in BOOLEAN :
        ( /\ t \in DOMAIN Bin[a].tags
          /\ files[p].exists
          /\ TagsAtPath([binaries |-> Bin], a, Target(a, p, t, c)) \subseteq {t}
          /\ c => ~files[CopyPath(a, t)].exists
          /\ AssertSelectedOwnedReference(Config(Enter), a) = "ok" )
        => Retracked(TrackPath(Enter, a, p, t, d, c, FALSE), a, p, t, d, c)

\* C13: after a successful track_path the link spec recorded is the given path with is_copy false when should_copy is
\* false, and the copy path (not the source path) with is_copy true when it is
\* true, the file at the copy path then having the content of the source.
C13_LinkSpecFollowsShouldCopy ==
    \A a \in Apps, p \in UserPaths, t \in AllTags, d \in Descriptions,
       c \in BOOLEAN, force \in BOOLEAN :
        LET r == TrackPath(Enter, a, p, t, d, c, force)
        IN  r.err = "ok" =>
                /\ r.binaries[a].tags[t].kind = "link"
                /\ ~c => r.binaries[a].tags[t].spec = [path |-> p, is_copy |-> FALSE]
                /\ c => /\ r.binaries[a].tags[t].spec = [path |-> CopyPath(a, t), is_copy |-> TRUE]
                        /\ CopyPath(a, t) # p
                        /\ r.files[CopyPath(a, t)].exists
                        /\ r.files[CopyPath(a, t)].content = files[p].content

\* C13, its case: for an application that has a selected tag, a track_path of
\* a path under another tag succeeds with a copy and succeeds without
C13_Witness ==
    \E a \in DOMAIN Bin, p \in UserPaths, t \in AllTags :
        /\ HasSelected(a)
        /\ t # Bin[a].selected
        /\ TrackPath(Enter, a, p, t, None, TRUE, FALSE).err = "ok"
        /\ TrackPath(Enter, a, p, t, None, FALSE, FALSE).err = "ok"

SelectedCommand(a) == HasSelected(a) /\ SelectedTag(a).kind = "command"

\* C14: with nothing changed outside the tool, whenever a command tag is
\* selected for an application the entry at the destination is a regular file
\* of mode 0755 holding exactly the two shim lines for that application.
C14_CommandArtifactIsShim ==
    nout = 0 =>
        \A a \in DOMAIN Bin :
            SelectedCommand(a) => dst[Bin[a].name] = Regular(ShimContent(Bin[a].name), Mode755)

\* C15: a successful remove(app, tag, new_selected) of the selected tag ends
\* with tag out of tags and, for new_selected None, selected None and nothing
\* at the destination; for new_selected another tag of the application,
\* selected == new_selected and that tag's artifact at the destination.
C15_RemoveSelectedUnselects ==
    \A a \in DOMAIN Bin :
        HasSelected(a) =>
            \A n \in ((DOMAIN Bin[a].tags) \ {Bin[a].selected}) \cup {None} :
                LET r == Remove(Enter, a, Bin[a].selected, n)
                IN  r.err = "ok" =>
                        /\ Bin[a].selected \notin DOMAIN r.binaries[a].tags
                        /\ r.binaries[a].selected = n
                        /\ n = None => r.dst[Bin[a].name].type = "absent"
                        /\ n # None => r.dst[Bin[a].name] = ArtifactFor(Bin[a], n)

\* the state rename_tag(a, old, new) must leave
Renamed(r, a, old, new) ==
    /\ new \in DOMAIN r.binaries[a].tags
    /\ r.binaries[a].tags[new] = Bin[a].tags[old]
    /\ old \notin DOMAIN r.binaries[a].tags
    /\ IF Bin[a].selected = old
       THEN /\ r.binaries[a].selected = new
            /\ r.dst[Bin[a].name] = ArtifactFor(r.binaries[a], new)
       ELSE r.binaries[a].selected = Bin[a].selected

\* C16: a successful rename_tag(app, old, new), old and new different, ends
\* with new mapped to the value old had, old out of tags, and selected == new
\* with the artifact of the tag at the destination when old was selected,
\* selected unchanged otherwise.
C16_RenameKeepsTagAndSelection ==
    \A a \in DOMAIN Bin, old \in AllTags, new \in AllTags :
        old # new =>
            LET r == RenameTag(Enter, a, old, new)
            IN  r.err = "ok" => Renamed(r, a, old, new)

\* what run asks for before it spawns
Runnable(a) ==
    /\ a \in DOMAIN Bin
    /\ SelectedCommand(a)
    /\ SelectedTag(a).spec.working_directory # None
           => SelectedTag(a).spec.working_directory \in dirs

\* C17: run spawns a child only if the application is tracked, has a selected
\* tag, that tag is a command tag and its working directory, when set,
\* exists; in every other case it raises, exits with an error status and has
\* spawned nothing.
C17_RunSpawnsOnlyWhenRunnable ==
    /\ Len(children) <= nops
    /\ \A a \in Apps, args \in ArgLists, environ \in Environs, status \in ExitStatuses :
        LET r == Run(Enter, a, args, environ, status)
        IN  /\ r.spawned # <<>> => Runnable(a)
            /\ ~Runnable(a) => (r.s.err # "ok" /\ r.spawned = <<>> /\ ExitCode(r) = 1)

\* C17, its case: after an earlier invocation, the working directory of the
\* selected command tag does not exist and run is refused for it
C17_Witness ==
    \E a \in DOMAIN Bin, environ \in Environs :
        /\ SelectedCommand(a)
        /\ SelectedTag(a).spec.working_directory # None
        /\ SelectedTag(a).spec.working_directory \notin dirs
        /\ Run(Enter, a, <<>>, environ, 0).s.err = "path_missing"
        /\ Run(Enter, a, <<>>, environ, 0).spawned = <<>>
        /\ nops > 0

\* C18: when run spawns, it spawns one child; its argument vector is the
\* tokens of the stored command followed by args as given, its working
\* directory the tag's when set and the caller's otherwise, and its
\* environment the caller's with the tag's entries laid over it, the tag's
\* value standing for every key both have.
C18_ChildArgvCwdEnv ==
    \A a \in Apps, args \in ArgLists, environ \in Environs, status \in ExitStatuses :
        LET r == Run(Enter, a, args, environ, status)
        IN  r.spawned # <<>> =>
                LET spec == SelectedTag(a).spec
                    child == r.spawned[1]
                    env == IF spec.env = None THEN EmptyMap ELSE EnvItems(spec.env)
                IN  /\ Len(r.spawned) = 1
                    /\ child.argv = ShlexSplit(spec.command) \o args
                    /\ child.cwd = IF spec.working_directory # None
                                   THEN spec.working_directory ELSE CallerCwd
                    /\ DOMAIN child.env = (DOMAIN environ) \cup (DOMAIN env)
                    /\ \A k \in DOMAIN env : child.env[k] = env[k]
                    /\ \A k \in (DOMAIN environ) \ (DOMAIN env) : child.env[k] = environ[k]

\* C18, its case: a command tag with a working directory and an env that has a
\* key of the caller's environment is run with arguments, after an earlier run
C18_Witness ==
    \E a \in DOMAIN Bin, environ \in Environs :
        /\ SelectedCommand(a)
        /\ SelectedTag(a).spec.env # None
        /\ SelectedTag(a).spec.working_directory # None
        /\ (DOMAIN environ) \cap (DOMAIN EnvItems(SelectedTag(a).spec.env)) # {}
        /\ Len(Run(Enter, a, <<"x y">>, environ, 0).spawned) = 1
        /\ children # <<>>

\* C19: whenever run spawns a child, the exit status its caller observes is
\* the exit status of the child.
C19_RunPropagatesExitStatus ==
    \A a \in Apps, args \in ArgLists, environ \in Environs, status \in ExitStatuses :
        LET r == Run(Enter, a, args, environ, status)
        IN  r.spawned # <<>> => ExitCode(r) = r.spawned[1].status

\* the configuration a load returns after the service has saved its _config
SavedThenLoaded ==
    Load(Save([Enter EXCEPT !.loaded = TRUE, !.binaries = Bin]).persisted.doc)

SaveKilled(s, n) ==
    [s EXCEPT !.persisted = PartialFile(Dump(s.binaries), n),
              !.dirs = IF s.persisted.state = "absent" THEN @ \cup {ConfigDirectory} ELSE @]

\* the number of lines a save of these binaries writes
SaveLines(binaries) == Len(Emit(Dump(binaries)))

\* an invocation killed in the save of its __exit__
KilledInSave(apps) ==
    \E a \in apps, command \in Commands, tag \in AllTags, description \in Descriptions :
        LET s == TrackCommand(Enter, a, command, tag, description, None)
        IN  /\ s.loaded
            /\ \E n \in 0..(SaveLines(s.binaries) - 1) : Leaves(SaveKilled(s, n))

\* a field that no model declares
UnknownFields == {"colour"}

RECURSIVE PutAt(_, _, _, _)
PutAt(d, p, k, v) ==
    IF p = <<>> THEN MapSet(d, k, v) ELSE [d EXCEPT ![Head(p)] = PutAt(@, Tail(p), k, v)]

\* the mappings of a document that are validated by a model: the document
\* (AppConfig), a binary entry (BinaryStruct), a tag (BaseTag), a tag's spec
MappingPaths(doc) ==
    LET b == doc.binaries
    IN  {<<>>}
        \cup {<<"binaries", a>> : a \in DOMAIN b}
        \cup UNION {{<<"binaries", a, "tags", t>> : t \in DOMAIN b[a].tags} : a \in DOMAIN b}
        \cup UNION {{<<"binaries", a, "tags", t, "spec">> : t \in DOMAIN b[a].tags} :
                        a \in DOMAIN b}

\* a change of the configuration file made outside the tool
OutsideFile ==
    /\ nops < MaxOps
    /\ nout < MaxOutside
    /\ nops' = nops + 1
    /\ nout' = nout + 1
    /\ UNCHANGED <<config, dst, files, dirs, children, observed, procs>>

\* the user adds a field to a mapping of the file
ExtEditFile ==
    /\ persisted.state = "doc"
    /\ Valid(persisted.doc)
    /\ \E p \in MappingPaths(Dump(Load(persisted.doc))), k \in UnknownFields :
            persisted' = FileDoc(PutAt(persisted.doc, p, k, "x"))
    /\ OutsideFile

\* the user deletes the configuration file
ExtDeleteConfig ==
    /\ persisted.state # "absent"
    /\ persisted' = FileAbsent
    /\ OutsideFile

StoreNext ==
    \/ DoTrackPath(MainApps)
    \/ DoTrackCommand(MainApps)
    \/ KilledInSave(MainApps)
    \/ ExtEditFile
    \/ ExtDeleteConfig

StoreSpec == Init /\ [][StoreNext]_vars

\* ----------------------------------------------------------------- C21
\* the service of the next invocation after its first access to config,
\* when the configuration file is f
LoadedFrom(f) == Config([Enter EXCEPT !.persisted = f])

\* C21: when the save of the configuration the service holds is killed after
\* any number of lines short of the whole text (none included), the next
\* load fails with a validation error.
C21_KilledSaveFailsValidation ==
    config.loaded =>
        \A n \in 0..(SaveLines(Bin) - 1) :
            LoadedFrom(PartialFile(Dump(Bin), n)).err = "ValidationError"

\* ----------------------------------------------------------------- C22
\* C22: when the configuration file does not exist, the first access to
\* config returns a configuration with no binaries and has written it to the
\* configuration path, whose directory then exists; when the file exists,
\* the access writes nothing.
C22_AbsentFileWritesBaseline ==
    LET s == Config(Enter)
    IN  /\ persisted.state = "absent" =>
            /\ s.err = "ok"
            /\ s.loaded
            /\ s.binaries = EmptyMap
            /\ s.persisted = FileDoc([binaries |-> EmptyMap])
            /\ s.dirs = dirs \cup {ConfigDirectory}
        /\ persisted.state # "absent" => (s.persisted = persisted /\ s.dirs = dirs)
        /\ s.dst = dst /\ s.files = files

\* the file of a configuration with binaries was deleted, and the next
\* access to config writes the baseline
C22_Witness ==
    /\ persisted.state = "absent"
    /\ Bin # EmptyMap
    /\ Config(Enter).persisted.state = "doc"

\* ----------------------------------------------------------------- C23
\* C23: a document that validation accepts is rejected with a validation
\* error, and nothing is loaded, once a field no model declares is added to
\* it at the top level, in a binary entry, in a tag or in a tag's spec.
C23_UnknownFieldRejected ==
    (persisted.state = "doc" /\ Valid(persisted.doc)) =>
        \A p \in MappingPaths(Dump(Load(persisted.doc))) : \A k \in UnknownFields :
            LET s == LoadedFrom(FileDoc(PutAt(persisted.doc, p, k, "x")))
            IN  s.err = "ValidationError" /\ ~s.loaded

\* the file holds a tag whose spec has an unknown field, and the load of
\* the next invocation fails
C23_Witness ==
    /\ config.loaded
    /\ \E p \in MappingPaths(Dump(Bin)) : \E k \in UnknownFields :
        /\ Len(p) = 5
        /\ persisted = FileDoc(PutAt(Dump(Bin), p, k, "x"))
    /\ Config(Enter).err = "ValidationError"

\* ------------------------------------------------------ migration engine
\* versions.py: ConfigVersion
ConfigVersion == {"0.0.0", "0.1.0"}
LatestVersion == "0.1.0"

\* migrator.py: the ordered list of migration steps
migrations ==
    <<[version |-> "0.0.0", migration_class |-> "MigrationInitial"],
      [version |-> "0.1.0", migration_class |-> "MigrationRemoveIsCopy"]>>

is_migrated(current_version) == migrations[Len(migrations)].version = current_version

\* a variant of migration_index that answers the index of the step before
migration_index_Previous(version) ==
    IF \E i \in DOMAIN migrations : migrations[i].version = version
    THEN (CHOOSE i \in DOMAIN migrations :
            /\ migrations[i].version = version
            /\ \A j \in 1..(i - 1) : migrations[j].version # version) - 2
    ELSE -1

\* the index from 0 of the first step with this version, -1 when there is none
migration_index(version) ==
    IF \E i \in DOMAIN migrations : migrations[i].version = version
    THEN (CHOOSE i \in DOMAIN migrations :
            /\ migrations[i].version = version
            /\ \A j \in 1..(i - 1) : migrations[j].version # version) - 1
    ELSE -1

\* the link tags of a document, as pairs of application and tag
LinkTagsOf(doc) ==
    UNION {{<<a, t>> : t \in {x \in DOMAIN doc.binaries[a].tags :
                                doc.binaries[a].tags[x].kind = "link"}} :
            a \in DOMAIN doc.binaries}

\* MigrationRemoveIsCopy.migrate: del tag['spec']['is_copy'] of every link tag
RemoveIsCopy(input_config) ==
    IF "binaries" \notin DOMAIN input_config
    THEN [err |-> "KeyError", doc |-> input_config]
    ELSE IF \E at \in LinkTagsOf(input_config) :
                "is_copy" \notin DOMAIN input_config.binaries[at[1]].tags[at[2]].spec
         THEN [err |-> "KeyError", doc |-> input_config]
    ELSE [err |-> "ok",
          doc |-> [input_config EXCEPT !.binaries =
                    [a \in DOMAIN @ |-> [@[a] EXCEPT !.tags =
                        [t \in DOMAIN @ |->
                            IF @[t].kind = "link"
                            THEN [@[t] EXCEPT !.spec = MapDel(@, "is_copy")]
                            ELSE @[t]]]]]]

\* instance.migrate(current_config) of a migration class
StepMigrate(migration_class, input_config) ==
    IF migration_class = "MigrationInitial"
    THEN [err |-> "ok", doc |-> input_config]
    ELSE RemoveIsCopy(input_config)

\* validate(instance=current_config, schema=schema) with the step's
\* EXPECTED_SCHEMA: the shape of a document after the step
SchemaAccepts(migration_class, doc) ==
    /\ {"version", "binaries"} \subseteq DOMAIN doc
    /\ \A a \in DOMAIN doc.binaries : "name" \in DOMAIN doc.binaries[a]
    /\ IF migration_class = "MigrationInitial"
       THEN doc.version = "0.0.0"
       ELSE /\ doc.version = "0.1.0"
            /\ \A at \in LinkTagsOf(doc) :
                "is_copy" \notin DOMAIN doc.binaries[at[1]].tags[at[2]].spec

\* what migrate gives: the document it returns, or the exception it raises,
\* and the migration classes whose migrate it called
\* argument is the dict that was passed in, as it is when the call ends: the
\* steps change the dict they are given in place
Migrated(doc, steps) ==
    [err |-> "ok", returned |-> TRUE, doc |-> doc, steps |-> steps, argument |-> doc]
MigrateFails(e, steps, argument) ==
    [err |-> e, returned |-> FALSE, doc |-> EmptyMap, steps |-> steps, argument |-> argument]

\* a variant of the loop that does not stamp the version of the step
RECURSIVE ApplyMigrations_NoStamp(_, _, _)
ApplyMigrations_NoStamp(current_config, migrations_needed, steps) ==
    IF migrations_needed = <<>> THEN Migrated(current_config, steps)
    ELSE LET migration == Head(migrations_needed)
             r == StepMigrate(migration.migration_class, current_config)
             applied == Append(steps, migration.migration_class)
         IN  IF r.err # "ok" THEN MigrateFails(r.err, applied, r.doc)
             ELSE ApplyMigrations_NoStamp(r.doc, Tail(migrations_needed), applied)

\* the loop of migrate over the migrations needed
RECURSIVE ApplyMigrations(_, _, _)
ApplyMigrations(current_config, migrations_needed, steps) ==
    IF migrations_needed = <<>> THEN Migrated(current_config, steps)
    ELSE LET migration == Head(migrations_needed)
             r == StepMigrate(migration.migration_class, current_config)
             stamped == MapSet(r.doc, "version", migration.version)
             applied == Append(steps, migration.migration_class)
         IN  IF r.err # "ok" THEN MigrateFails(r.err, applied, r.doc)
             ELSE IF ~SchemaAccepts(migration.migration_class, stamped)
                  THEN MigrateFails("SchemaValidationError", applied, stamped)
             ELSE ApplyMigrations(stamped, Tail(migrations_needed), applied)

\* current_config = deepcopy(config): the loop works on another object, and
\* the dict the caller passed is as it was
ArgumentAfter(input, r) == [r EXCEPT !.argument = input]

\* a variant of migrate that looks the version string up without ConfigVersion
migrate_NoEnum(input) ==
    LET version == IF "version" \notin DOMAIN input THEN "0.0.0" ELSE input.version
        index == migration_index(version)
    IN  ApplyMigrations(input, SubSeq(migrations, index + 2, Len(migrations)), <<>>)

\* a variant of migrate whose steps work on the object passed in, not a copy
migrate_NoDeepCopy(input) ==
    IF "version" \in DOMAIN input /\ input.version \notin ConfigVersion
    THEN MigrateFails("ValueError", <<>>, input)
    ELSE LET version == IF "version" \notin DOMAIN input THEN "0.0.0" ELSE input.version
             index == migration_index(version)
         IN  ApplyMigrations(input, SubSeq(migrations, index + 2, Len(migrations)), <<>>)

\* migrator.migrate
migrate(input) ==
    IF "version" \in DOMAIN input /\ input.version \notin ConfigVersion
    THEN MigrateFails("ValueError", <<>>, input)   \* ConfigVersion(config['version'])
    ELSE LET version == IF "version" \notin DOMAIN input THEN "0.0.0" ELSE input.version
             index == migration_index(version)
             current_config == input
         IN  ArgumentAfter(input,
                ApplyMigrations(current_config,
                                SubSeq(migrations, index + 2, Len(migrations)), <<>>))

\* ------------------------------------------- migrate, on documents
\* the version fields of the documents migrate is applied to
VersionFields == {None, "0.0.0", "0.1.0", "9.9.9"}

MigrateTagMaps ==
    {EmptyMap}
    \cup {("a" :> x) : x \in {LinkTag(None, "p1", FALSE), LinkTag("d1", "p1", TRUE),
                              CommandTag(None, "echo hi", None)}}
    \cup {("a" :> x) @@ ("b" :> y) :
            x \in {LinkTag(None, "p1", FALSE), LinkTag("d1", "p1", TRUE),
                   CommandTag(None, "echo hi", None)},
            y \in {LinkTag(None, "p2", FALSE), CommandTag("d1", "echo hi", "w1")}}

MigrateBinaries ==
    {EmptyMap}
    \cup {("A" :> [name |-> "A", tags |-> tg,
                   selected |-> IF "a" \in DOMAIN tg THEN "a" ELSE None]) :
            tg \in MigrateTagMaps}

\* the document as a release without is_copy would have written it
WithoutIsCopy(doc) ==
    [doc EXCEPT !.binaries =
        [a \in DOMAIN @ |-> [@[a] EXCEPT !.tags =
            [t \in DOMAIN @ |->
                IF @[t].kind = "link" THEN [@[t] EXCEPT !.spec = MapDel(@, "is_copy")]
                ELSE @[t]]]]]

WithVersion(doc, v) == IF v = None THEN doc ELSE MapSet(doc, "version", v)

\* a hand-written document whose binary entries have no name
WithoutName(doc) ==
    [doc EXCEPT !.binaries = [a \in DOMAIN @ |-> MapDel(@[a], "name")]]

MigrateDocs ==
    {WithVersion(d, v) :
        d \in {Dump(b) : b \in MigrateBinaries}
               \cup {WithoutIsCopy(Dump(b)) : b \in MigrateBinaries}
               \cup {WithoutName(Dump(b)) : b \in MigrateBinaries},
        v \in VersionFields}

MigrateInit ==
    \E d \in MigrateDocs :
        /\ persisted = FileDoc(d)
        /\ config = [loaded |-> FALSE, binaries |-> EmptyMap]
        /\ dst = [a \in Apps |-> Absent]
        /\ files = [p \in AllPaths |->
                      IF p \in UserPaths THEN File("data of " \o p, ModeUser) ELSE Missing]
        /\ dirs = WorkDirs \cup {ConfigDirectory}
        /\ nout = 0
        /\ nops = 0
        /\ children = <<>>
        /\ observed = 0
        /\ procs = EmptyMap

\* migrate is applied to the document of the file and its result written back
DoMigrate ==
    /\ persisted.state = "doc"
    /\ nops < MaxOps
    /\ LET r == migrate(persisted.doc)
       IN  /\ r.err = "ok"
           /\ persisted' = FileDoc(r.doc)
    /\ nops' = nops + 1
    /\ UNCHANGED <<config, dst, files, dirs, nout, children, observed, procs>>

MigrateNext ==
    \/ DoMigrate
    \/ DoTrackCommand(MainApps)

MigrateSpec == MigrateInit /\ [][MigrateNext]_vars

\* ----------------------------------------------------------------- C24
\* the document's version field is absent or behind the latest version
NeedsMigration(doc) ==
    \/ "version" \notin DOMAIN doc
    \/ doc.version \in ConfigVersion /\ doc.version # LatestVersion

\* C24: when the version field of the file's document is absent or behind
\* the latest version and migrate succeeds on the document, the first access
\* to config succeeds and gives the configuration of the migrated document.
C24_LoadRunsMigration ==
    (/\ persisted.state = "doc"
     /\ NeedsMigration(persisted.doc)
     /\ migrate(persisted.doc).err = "ok") =>
        LET s == Config(Enter)
        IN  s.err = "ok" /\ s.binaries = Load(migrate(persisted.doc).doc)

\* ----------------------------------------------------------------- C25
\* C25: the document migrate returns is accepted by the validation of the
\* next load, and the document a save writes has a version and a binaries
\* field.
C25_MigratedDocumentLoads ==
    persisted.state = "doc" =>
        /\ migrate(persisted.doc).err = "ok" =>
                LoadedFrom(FileDoc(migrate(persisted.doc).doc)).err = "ok"
        /\ Config(Enter).loaded =>
                {"version", "binaries"} \subseteq DOMAIN Exit(Config(Enter)).persisted.doc

\* ----------------------------------------------------------------- C26
\* C26: on a document whose version is the latest, migrate calls no
\* migration step and returns the document itself; and whenever migrate
\* returns a document, migrate of that document returns it again.
C26_MigrateIdempotent ==
    persisted.state = "doc" =>
        LET d == persisted.doc
            r == migrate(d)
        IN  /\ ("version" \in DOMAIN d /\ d.version = LatestVersion) =>
                /\ r.err = "ok"
                /\ r.steps = <<>>
                /\ r.doc = d
                /\ r.doc.version = LatestVersion
            /\ r.err = "ok" =>
                /\ migrate(r.doc).err = "ok"
                /\ migrate(r.doc).doc = r.doc
                /\ r.doc.version = LatestVersion

\* a document with link tags that migrate has brought to the latest version
C26_Witness ==
    /\ persisted.state = "doc"
    /\ nops > 0
    /\ "version" \in DOMAIN persisted.doc
    /\ persisted.doc.version = LatestVersion
    /\ LinkTagsOf(persisted.doc) # {}
    /\ migrate(persisted.doc).steps = <<>>

\* ----------------------------------------------------------------- C27
\* C27: on a document whose version string is no known version, migrate
\* raises the error of the version lookup, has called no migration step and
\* returns no document.
C27_UnknownVersionIsFatal ==
    (/\ persisted.state = "doc"
     /\ "version" \in DOMAIN persisted.doc
     /\ persisted.doc.version \notin {migrations[i].version : i \in DOMAIN migrations}) =>
        LET r == migrate(persisted.doc)
        IN  r.err = "ValueError" /\ r.steps = <<>> /\ ~r.returned

\* a document with link tags and an unknown version, on which migrate fails
C27_Witness ==
    /\ persisted.state = "doc"
    /\ "version" \in DOMAIN persisted.doc
    /\ persisted.doc.version = "9.9.9"
    /\ LinkTagsOf(persisted.doc) # {}
    /\ migrate(persisted.doc).err = "ValueError"

\* ----------------------------------------------------------------- C28
\* the calls of the operations for application a that name an application
\* that is not tracked, or a tag the application does not have
NotTrackedCalls(a) ==
    LET s == Config(Enter)
        untracked == a \notin DOMAIN s.binaries
        missing == {t \in AllTags : untracked \/ t \notin DOMAIN s.binaries[a].tags}
    IN  {Select(Enter, a, t, f) : t \in missing, f \in BOOLEAN}
        \cup {Select(Enter, a, None, f) : f \in {x \in BOOLEAN : untracked}}
        \cup {RenameTag(Enter, a, t, n) : t \in missing, n \in AllTags}
        \cup {DescribeTag(Enter, a, t, d) : t \in missing, d \in Descriptions}
        \cup {Remove(Enter, a, t, n) : t \in missing, n \in AllTags \cup {None}}
        \cup {Run(Enter, a, args, e, st).s :
                args \in {x \in ArgLists : untracked}, e \in Environs, st \in ExitStatuses}

\* C28: select, rename_tag, describe_tag, remove and run for an application
\* that is not tracked, and select, rename_tag, describe_tag and remove for a
\* tag the application does not have, raise the not-tracked error and leave
\* the loaded configuration, the file and every artifact as they were.
C28_NotTrackedChangesNothing ==
    \A a \in Apps :
        LET s == Config(Enter)
        IN  s.err = "ok" =>
                \A r \in NotTrackedCalls(a) :
                    r = Raise(s, IF a \in DOMAIN s.binaries
                                 THEN "tag_not_found" ELSE "app_not_tracked")

\* application A has tag a selected and no tag b, its artifact is in place,
\* and select of b is refused
C28_Witness ==
    /\ "A" \in DOMAIN Bin
    /\ DOMAIN Bin["A"].tags = {"a"}
    /\ Bin["A"].selected = "a"
    /\ dst["A"] = ArtifactFor(Bin["A"], "a")
    /\ Select(Enter, "A", "b", FALSE).err = "tag_not_found"
    /\ Select(Enter, "A", "b", FALSE).dst = dst

\* ------------------------------------------------ overlapping invocations
\* Two invocations of `altb track command` run at the same time against the
\* same configuration file and bin directory.  An invocation is three steps:
\* the first access to config (the load), the rest of track_command, and
\* the save of __exit__.
Procs == {1, 2}

NotStarted == [pc |-> "start", loaded |-> FALSE, binaries |-> EmptyMap, err |-> "ok"]

\* the service of invocation i, on the file and the file system as they are
Local(i) ==
    [loaded |-> procs[i].loaded, binaries |-> procs[i].binaries, persisted |-> persisted,
     dst |-> dst, files |-> files, dirs |-> dirs, err |-> procs[i].err, exit_err |-> "ok"]

InProgress(s, pc) == [pc |-> pc, loaded |-> s.loaded, binaries |-> s.binaries, err |-> s.err]

RaceInit ==
    /\ persisted = FileAbsent
    /\ config = [loaded |-> FALSE, binaries |-> EmptyMap]
    /\ dst = [a \in Apps |-> Absent]
    /\ files = [p \in AllPaths |->
                  IF p \in UserPaths THEN File("data of " \o p, ModeUser) ELSE Missing]
    /\ dirs = WorkDirs
    /\ nout = 0
    /\ nops = 0
    /\ children = <<>>
    /\ observed = 0
    /\ procs = [i \in Procs |-> NotStarted]

\* AltbService.config, first access: an invocation starts and loads the file
RaceLoad ==
    \E i \in Procs :
        LET s == Config([Local(i) EXCEPT !.loaded = FALSE, !.binaries = EmptyMap, !.err = "ok"])
        IN  /\ procs[i].pc \in {"start", "done"}
            /\ nops < MaxOps
            /\ nops' = nops + 1
            /\ procs' = [procs EXCEPT ![i] = InProgress(s, "loaded")]
            /\ persisted' = s.persisted
            /\ dirs' = s.dirs
            /\ UNCHANGED <<config, dst, files, nout, children, observed>>

\* AltbService.track_command on the configuration the invocation holds
RaceTrack(apps) ==
    \E i \in Procs, a \in apps, command \in Commands, tag \in AllTags,
       description \in Descriptions :
        LET s == TrackCommand(Local(i), a, command, tag, description, None)
        IN  /\ procs[i].pc = "loaded"
            /\ procs' = [procs EXCEPT ![i] = InProgress(s, "mutated")]
            /\ persisted' = s.persisted
            /\ dst' = s.dst
            /\ files' = s.files
            /\ dirs' = s.dirs
            /\ UNCHANGED <<config, nout, nops, children, observed>>

\* AltbService.__exit__: the invocation saves what it holds and ends
RaceSave ==
    \E i \in Procs :
        LET s == Exit(Local(i))
        IN  /\ procs[i].pc = "mutated"
            /\ procs' = [procs EXCEPT ![i] = InProgress(s, "done")]
            /\ persisted' = s.persisted
            /\ config' = [loaded |-> s.loaded, binaries |-> s.binaries]
            /\ dirs' = s.dirs
            /\ UNCHANGED <<dst, files, nout, nops, children, observed>>

RaceNext ==
    \/ RaceLoad
    \/ RaceTrack(MainApps)
    \/ RaceSave

RaceSpec == RaceInit /\ [][RaceNext]_vars

\* ----------------------------------------------------------------- C29
\* the tags of a configuration, each with its application
TagsIn(binaries) == UNION {{<<a, t>> : t \in DOMAIN binaries[a].tags} : a \in DOMAIN binaries}

\* C29: the save of an invocation writes the configuration that invocation
\* holds and nothing else: whatever tag another invocation has written to the
\* file since this one loaded is not in the file after this save.
C29_LastWriterWins ==
    \A i \in DOMAIN procs :
        (procs[i].pc = "mutated" /\ procs[i].loaded) =>
            LET s == Exit(Local(i))
            IN  /\ s.persisted = FileDoc(Dump(procs[i].binaries))
                /\ s.exit_err = "ok"
                /\ persisted.state = "doc" =>
                        \A at \in TagsIn(Load(persisted.doc)) \ TagsIn(procs[i].binaries) :
                            at \notin TagsIn(Load(s.persisted.doc))

\* both invocations tracked a tag without error and have saved, and the tag
\* one of them tracked is not in the file: the file is what the other holds
C29_Witness ==
    \E i \in DOMAIN procs : \E j \in DOMAIN procs \ {i} :
        /\ procs[i].pc = "done" /\ procs[j].pc = "done"
        /\ procs[i].err = "ok" /\ procs[j].err = "ok"
        /\ persisted = FileDoc(Dump(procs[i].binaries))
        /\ TagsIn(procs[j].binaries) \ TagsIn(Load(persisted.doc)) # {}

\* ----------------------------------------------------------------- C30
\* the errors of the drift check
DriftErrors == {"drift", "not_symlink"}

\* <bin_dir>/<app> is a symbolic link to the spec.path of the selected tag
LinkedToSelected(a) ==
    dst[a].type = "symlink" /\ dst[a].target = SelectedTag(a).spec.path

\* C30: while the selected tag is a link tag, the drift check passes, and a
\* select without force does not fail with a drift error, exactly when the
\* destination is a symbolic link whose target is the tag's spec.path; a
\* regular file or a missing destination fail as not a symlink, a symlink to
\* another path fails as drift.  While the selected tag is a command tag the
\* check passes and no select fails with a drift error.
C30_DriftCheckIffLinkedToSelected ==
    \A a \in Apps :
        HasSelected(a) =>
            LET chk == AssertSelectedOwnedReference(Config(Enter), a)
            IN  /\ SelectedLink(a) =>
                    /\ (chk = "ok") <=> LinkedToSelected(a)
                    /\ dst[a].type \in {"file", "absent"} => chk = "not_symlink"
                    /\ (dst[a].type = "symlink" /\ ~LinkedToSelected(a)) => chk = "drift"
                /\ ~SelectedLink(a) => chk = "ok"
                /\ \A t \in TagsOrNone(a) :
                    (Select(Enter, a, t, FALSE).err \in DriftErrors)
                        <=> (SelectedLink(a) /\ ~LinkedToSelected(a))

\* a link tag is selected, nothing is at the destination, and a select
\* without force fails
C30_Witness ==
    /\ SelectedLink("A")
    /\ dst["A"].type = "absent"
    /\ \A t \in TagsOrNone("A") : Select(Enter, "A", t, FALSE).err = "not_symlink"

\* ----------------------------------------------------------------- C31
\* the version migrate takes the document to be at
VersionOf(doc) == IF "version" \in DOMAIN doc THEN doc.version ELSE migrations[1].version

\* the migration classes listed after the first step with version v
StepsAfter(v) ==
    LET i == CHOOSE k \in DOMAIN migrations :
                /\ migrations[k].version = v
                /\ \A j \in 1..(k - 1) : migrations[j].version # v
    IN  [k \in 1..(Len(migrations) - i) |-> migrations[i + k].migration_class]

IsPrefix(s, t) == Len(s) <= Len(t) /\ SubSeq(t, 1, Len(s)) = s

\* C31: on a document at a known version v (no version field counting as
\* the first version of the list) migrate calls the steps listed after v, in
\* that order, each once; when it succeeds it has called all of them, the
\* document it returns has the latest version and passes the schema of the
\* last step called; when it fails it has stopped at the step that raised
\* or whose stamped result the schema rejects, and returns no document.
C31_MigrateAppliesLaterSteps ==
    (persisted.state = "doc" /\ VersionOf(persisted.doc) \in ConfigVersion) =>
        LET d == persisted.doc
            r == migrate(d)
            after == StepsAfter(VersionOf(d))
        IN  /\ IsPrefix(r.steps, after)
            /\ r.err = "ok" =>
                /\ r.steps = after
                /\ r.returned
                /\ "version" \in DOMAIN r.doc
                /\ r.doc.version = LatestVersion
                /\ r.steps # <<>> =>
                        SchemaAccepts(r.steps[Len(r.steps)], r.doc)
            /\ r.err # "ok" =>
                /\ ~r.returned
                /\ r.steps # <<>>
                /\ LET failed == r.steps[Len(r.steps)]
                       out == StepMigrate(failed, d)
                   IN  \/ out.err = r.err
                       \/ /\ out.err = "ok"
                          /\ r.err = "SchemaValidationError"
                          /\ ~SchemaAccepts(failed, MapSet(out.doc, "version", LatestVersion))

\* a document with a link tag and no version field that migrate brings to
\* the latest version by its one later step
C31_Witness ==
    /\ persisted.state = "doc"
    /\ "version" \notin DOMAIN persisted.doc
    /\ LinkTagsOf(persisted.doc) # {}
    /\ migrate(persisted.doc).err = "ok"
    /\ migrate(persisted.doc).steps = <<"MigrationRemoveIsCopy">>

C33_RemoveUnselectedOnlyDeletes ==
    \A a \in DOMAIN Bin : \A tag \in DOMAIN Bin[a].tags : \A new_selected \in AllTags \cup {None} :
        tag # Bin[a].selected =>
            Remove(Enter, a, tag, new_selected) =
                [Config(Enter) EXCEPT !.binaries[a].tags = MapDel(@, tag)]

\* application A has tags a and b, a selected and its artifact in place,
\* and b is removed with new_selected = b
C33_Witness ==
    /\ "A" \in DOMAIN Bin
    /\ DOMAIN Bin["A"].tags = {"a", "b"}
    /\ Bin["A"].selected = "a"
    /\ dst["A"] = ArtifactFor(Bin["A"], "a")
    /\ LET r == Remove(Enter, "A", "b", "b")
       IN  /\ r.err = "ok"
           /\ DOMAIN r.binaries["A"].tags = {"a"}
           /\ r.binaries["A"].selected = "a"
           /\ r.dst = dst

\* ----------------------------------------------------------------- C34
\* the errors of track_path that say something exists already
ExistsErrors == {"copy_exists", "already_tracked"}

\* C34: when track_path for a tracked application fails because the copy
\* destination exists or the target path is already tracked, the selected
\* tag and the tags of the application and the artifact at its destination
\* are what they were before the call.
C34_FailedTrackKeepsSelection ==
    \A a \in DOMAIN Bin :
        \A app_path \in UserPaths, tag \in AllTags, description \in Descriptions,
           should_copy \in BOOLEAN, force \in BOOLEAN :
            LET r == TrackPath(Enter, a, app_path, tag, description, should_copy, force)
            IN  r.err \in ExistsErrors =>
                    /\ r.binaries[a].selected = Bin[a].selected
                    /\ r.binaries[a].tags = Bin[a].tags
                    /\ r.dst[a] = dst[a]

\* ----------------------------------------------------------------- C35
\* the calls of track_path and track_command for application a that fail the
\* existence check of the source path or of the working directory
ExistenceRefusals(a) ==
    {r \in {TrackPath(Enter, a, app_path, tag, description, should_copy, force) :
                app_path \in UserPaths, tag \in AllTags, description \in Descriptions,
                should_copy \in BOOLEAN, force \in BOOLEAN}
           \cup {TrackCommand(Enter, a, command, tag, description, working_directory) :
                    command \in Commands, tag \in AllTags, description \in Descriptions,
                    working_directory \in WorkDirs} :
        r.err = "path_missing"}

\* C35: after an invocation of track path or track command that fails the
\* existence check, the save of __exit__ included, the configuration file
\* is what it was before the invocation.
C35_EarlyFailureKeepsFile ==
    \A a \in Apps : \A r \in ExistenceRefusals(a) : Exit(r).persisted = persisted

\* ----------------------------------------------------------------- C36
\* C36: when _unselect_current_tag returns without error, nothing is left
\* at the destination path, a dangling symlink included; hence a non-forced
\* select of a tag of the application that raises no drift error ends with
\* selected equal to that tag.
C36_UnselectClearsDestination ==
    \A a \in DOMAIN Bin :
        /\ LET u == UnselectCurrentTag(Config(Enter), a)
           IN  u.err = "ok" => u.dst[DestinationFor(Bin[a])] = Absent
        /\ \A t \in DOMAIN Bin[a].tags :
               LET r == Select(Enter, a, t, FALSE)
               IN  r.err \notin DriftErrors =>
                       /\ r.err = "ok"
                       /\ r.binaries[a].selected = t

\* ----------------------------------------------------------------- C37
\* C37: a select, forced or not, of any tag of a tracked application,
\* whatever is at the destination, leaves every file other than the entry
\* at <bin_dir>/<app> as it was: the shim of a command tag is never written
\* through a symlink at the destination.
C37_SelectWritesOnlyDestination ==
    \A a \in DOMAIN Bin : \A t \in TagsOrNone(a), force \in BOOLEAN :
        Select(Enter, a, t, force).files = files

\* ----------------------------------------------------------------- C38
\* C38: track_path with force = TRUE never fails with a drift error, in
\* particular not when the forced deduplication removes the selected tag
\* whose destination artifact has drifted.
C38_ForcedTrackNeverDrifts ==
    \A a \in Apps : \A app_path \in UserPaths, tag \in AllTags, should_copy \in BOOLEAN :
        TrackPath(Enter, a, app_path, tag, None, should_copy, TRUE).err \notin DriftErrors

\* ----------------------------------------------------------------- C39
\* the command tags of a document, by application and tag
CommandTagsOf(doc) ==
    UNION {{<<a, t>> : t \in {x \in DOMAIN doc.binaries[a].tags :
                                doc.binaries[a].tags[x].kind = "command"}} :
            a \in DOMAIN doc.binaries}

\* a document of the first version of the list, or with no version field,
\* that the schema of the first step accepts
OldestShape(doc) ==
    /\ VersionOf(doc) = migrations[1].version
    /\ SchemaAccepts(migrations[1].migration_class,
                     MapSet(doc, "version", migrations[1].version))

\* C39: migrate succeeds on every document of the oldest shape, with or
\* without a version field and with or without is_copy in the spec of a
\* link tag; in the document returned no link tag's spec has is_copy and
\* every command tag is as it was.
C39_MigrateOldestSucceeds ==
    (persisted.state = "doc" /\ OldestShape(persisted.doc)) =>
        LET d == persisted.doc
            r == migrate(d)
        IN  /\ r.err = "ok"
            /\ \A at \in LinkTagsOf(r.doc) :
                   "is_copy" \notin DOMAIN r.doc.binaries[at[1]].tags[at[2]].spec
            /\ CommandTagsOf(r.doc) = CommandTagsOf(d)
            /\ \A at \in CommandTagsOf(d) :
                   r.doc.binaries[at[1]].tags[at[2]] = d.binaries[at[1]].tags[at[2]]

\* ----------------------------------------------------------------- C40
\* the other application
OtherApps == Apps \ MainApps

\* altb track path <app>@<tag> <path>, with the default options, for an
\* application other than the main one
DoTrackOther ==
    \E a \in OtherApps, app_path \in UserPaths, tag \in AllTags :
        Leaves(Exit(TrackPath(Enter, a, app_path, tag, None, FALSE, FALSE)))

\* invocations for the main application and for another one, and changes
\* made outside the tool to the entry of either
FrameNext ==
    \/ DoTrackPath(MainApps)
    \/ DoTrackCommand(MainApps)
    \/ DoTrackOther
    \/ ExtWriteFile(Apps)

FrameSpec == Init /\ [][FrameNext]_vars

\* every BinaryStruct of a mapping has the name it is stored under
NamedByKey(binaries) == \A x \in DOMAIN binaries : binaries[x].name = x

\* the BinaryStruct of application b, or None when it has none
StructOf(binaries, b) == IF b \in DOMAIN binaries THEN binaries[b] ELSE None

====
